---- MODULE Spec2Model ----
(***************************************************************************)
(* Creator discovery pipeline (main.py): keyword generation, author        *)
(* search with de-duplication, per-author activity measurement, threshold  *)
(* filtering, persistence, and the CrewAI wrapper with its fallback.       *)
(*                                                                         *)
(* The three external services (text generation, recent search, user       *)
(* timeline) and the orchestration library are the environment: each call  *)
(* draws its outcome from a small set of responses.                        *)
(***************************************************************************)
EXTENDS Integers, Sequences, FiniteSets, TLC

\* ------------------------------------------------------------ constants
MIN_FOLLOWERS == 5000
MIN_TWEETS_2W == 6

Topic == "US financial markets"
ResultsFile == "results.json"
CrewResultsFile == "results_crewai.json"

FallbackKeywords == <<"US stock market", "Wall Street", "S&P 500">>

\* --------------------------------------------------------------- bounds
\* Most users in one search response's includes["users"].
MaxUsers == 2
\* Longest JSON array the text generation returns.
MaxKeywords == 2

\* Author ids the platform hands out, follower counts around the threshold,
\* and timeline lengths around the threshold.
AuthorIds == {1, 2}
FollowerCounts == {MIN_FOLLOWERS - 1, MIN_FOLLOWERS}
PostCounts == {MIN_TWEETS_2W - 1, MIN_TWEETS_2W}

\* ------------------------------------------------- environment responses
SeqsUpTo(S, n) == UNION {[1..k -> S] : k \in 0..n}

\* A user's public_metrics: None, a dict without followers_count, or a dict
\* with it.
NoneMetrics == [kind |-> "none", followers_count |-> 0]
EmptyMetrics == [kind |-> "dict", followers_count |-> -1]
Metrics(n) == [kind |-> "dict", followers_count |-> n]
MetricsChoices == {NoneMetrics, EmptyMetrics} \cup {Metrics(n) : n \in FollowerCounts}

\* The platform gives every account one handle.
Handle(id) == "user" \o ToString(id)

IncludedUsers ==
  {[id |-> a, username |-> Handle(a), public_metrics |-> m] :
     a \in AuthorIds, m \in MetricsChoices}

\* search_recent_tweets: raises, answers without includes["users"], or
\* answers with a list of included users.
SearchResponses ==
  {[kind |-> "error", users |-> <<>>], [kind |-> "no_includes", users |-> <<>>]}
  \cup {[kind |-> "users", users |-> us] : us \in SeqsUpTo(IncludedUsers, MaxUsers) \ {<<>>}}

NoResp == [kind |-> "unset", users |-> <<>>]

\* get_users_tweets: raises, returns None, or returns a response whose data
\* is None or a list of posts.
Posts(n) == [k \in 1..n |-> k]
TimelineResponses ==
  {[kind |-> "error", data |-> <<>>], [kind |-> "none", data |-> <<>>],
   [kind |-> "no_data", data |-> <<>>], [kind |-> "data", data |-> <<>>]}
  \cup {[kind |-> "data", data |-> Posts(n)] : n \in PostCounts}

\* chat.completions.create: raises, or returns a completion whose content
\* is one of these texts (given by what json.loads makes of them).
KeywordPool(n) == [k \in 1..n |-> "kw" \o ToString(k)]
LLMResponses ==
  {[kind |-> "error", items |-> <<>>],
   [kind |-> "no_choices", items |-> <<>>],
   [kind |-> "malformed", items |-> <<>>],
   [kind |-> "number", items |-> <<>>],
   [kind |-> "string", items |-> <<"S", "P">>],
   [kind |-> "object", items |-> <<"keywords">>]}
  \cup {[kind |-> "array", items |-> KeywordPool(n)] : n \in 0..MaxKeywords}

NoLLM == [kind |-> "unset", items |-> <<>>]

\* ----------------------------------------------------------- json.loads
\* A parsed JSON value: its kind and what iterating it yields.
JsonValue(kind, items) == [kind |-> kind, items |-> items]
NoKeywords == JsonValue("unset", <<>>)

\* json.loads(resp.choices[0].message.content) raises inside the try block
\* on an empty choices list and on text that is not JSON.
ParseRaises(r) == r.kind \in {"no_choices", "malformed"}

\* generate_keywords' return value for a completion that was received.
KeywordsFrom(r) ==
  IF ParseRaises(r) THEN JsonValue("array", FallbackKeywords)
  ELSE JsonValue(r.kind, r.items)

\* `for kw in keywords`: a number is not iterable.
Iterable(v) == v.kind \in {"array", "string", "object"}

\* ------------------------------------------------------- the author dict
\* authors is a Python dict: insertion-ordered, keyed by uid.
HasKey(d, key) == \E j \in 1..Len(d) : d[j].uid = key
KeyIndex(d, key) == CHOOSE j \in 1..Len(d) : d[j].uid = key

\* Mutant: authors.setdefault(key, val), the first metadata seen stays.
DictSetKeepFirst(d, key, val) ==
  IF HasKey(d, key) THEN d ELSE Append(d, val)

\* Mutant: an overwritten key is dropped and stored again at the end.
DictSetMoveToEnd(d, key, val) ==
  Append(SelectSeq(d, LAMBDA e : e.uid # key), val)

\* authors[key] = val
DictSet(d, key, val) ==
  IF HasKey(d, key) THEN [d EXCEPT ![KeyIndex(d, key)] = val]
  ELSE Append(d, val)

\* u.public_metrics.get("followers_count", 0); None has no .get
MetricsRaises(u) == u.public_metrics.kind = "none"
FollowersOf(u) ==
  IF u.public_metrics.followers_count = -1 THEN 0
  ELSE u.public_metrics.followers_count

AuthorEntry(u) ==
  [uid |-> ToString(u.id), username |-> u.username, followers |-> FollowersOf(u)]

\* for u in resp.includes["users"]: authors[str(u.id)] = {...}; the first
\* user that raises ends the loop, and what was stored before it stays.
RECURSIVE ProcessUsers(_, _)
ProcessUsers(d, users) ==
  IF users = <<>> THEN d
  ELSE IF MetricsRaises(Head(users)) THEN d
  ELSE ProcessUsers(DictSet(d, ToString(Head(users).id), AuthorEntry(Head(users))),
                    Tail(users))

\* One iteration of `for kw in keywords`, try block and handler.
ProcessResponse(d, r) ==
  IF r.kind = "users" THEN ProcessUsers(d, r.users) ELSE d

\* ---------------------------------------------------------- count_tweets
\* Mutant: a failed call is reported as -1 instead of 0.
CountTweetsSentinel(tl) ==
  IF tl.kind = "error" THEN -1
  ELSE IF tl.kind = "data" /\ tl.data # <<>> THEN Len(tl.data) ELSE 0

\* len(resp.data) if resp and resp.data else 0; 0 in the handler
CountTweets(tl) ==
  IF tl.kind = "data" /\ tl.data # <<>> THEN Len(tl.data) ELSE 0

\* --------------------------------------------------------------- filter
\* Mutant: the follower threshold is exclusive.
QualifiesStrict(info, t) == info.followers > MIN_FOLLOWERS /\ t >= MIN_TWEETS_2W

\* info["followers"] >= MIN_FOLLOWERS and t >= MIN_TWEETS_2W
Qualifies(info, t) == info.followers >= MIN_FOLLOWERS /\ t >= MIN_TWEETS_2W

\* round(t/2, 2), in hundredths
AvgPostsPerWeek(t) == (t * 100 + 1) \div 2

ResultEntry(info, t) ==
  [profile_url |-> "https://x.com/" \o info.username,
   username |-> info.username,
   followers |-> info.followers,
   tweets_last_2_weeks |-> t,
   avg_posts_per_week |-> AvgPostsPerWeek(t)]

\* ------------------------------------------------------ result payloads
\* What ends up in result_data / the file: a list of entries, or the
\* orchestration's own text.
ListPayload(rs) == [kind |-> "list", items |-> rs]
RawText == [kind |-> "text", items |-> <<>>]
NoPayload == [kind |-> "unset", items |-> <<>>]

NoResult == [attrs |-> {}, raw |-> NoPayload, to_dict |-> NoPayload,
             json |-> NoPayload, self |-> NoPayload]

\* The hasattr chain of run_crewai: raw, then to_dict(), then json, then
\* the object itself.
Extract(r) ==
  IF "raw" \in r.attrs THEN r.raw
  ELSE IF "to_dict" \in r.attrs THEN r.to_dict
  ELSE IF "json" \in r.attrs THEN r.json
  ELSE r.self

AttrChoices == {{"raw", "to_dict", "json"}, {"to_dict", "json"}, {"json"}, {}}

\* ----------------------------------------------------------------- state
VARIABLES
  entry,            \* who started the run: the __main__ block or a caller of run_crewai
  crewaiAvailable,  \* CREWAI_AVAILABLE
  pc,               \* position in the program
  ctx,              \* which function runs the pipeline steps
  exc,              \* the exception that left the run, "None" if none
  llm,              \* generate_keywords: resp
  kws,              \* kws
  kwIdx,            \* search_authors: position of `for kw in keywords`
  resp,             \* search_authors: resp of the keyword just processed
  authors,          \* authors
  timelines,        \* count_tweets: the responses received, one per candidate
  tweets,           \* t of each candidate measured so far
  results,          \* results
  result,           \* run_crewai: result
  result_data,      \* run_crewai: result_data
  writes,           \* the json.dump calls made, in order
  ret               \* what the run returned

vars == <<entry, crewaiAvailable, pc, ctx, exc, llm, kws, kwIdx, resp, authors,
          timelines, tweets, results, result, result_data, writes, ret>>

locals == <<llm, kws, kwIdx, resp, authors, timelines, tweets, results>>

Init ==
  /\ entry \in {"main", "run_crewai"}
  /\ crewaiAvailable \in BOOLEAN
  /\ pc = "start"
  /\ ctx = "none"
  /\ exc = "None"
  /\ llm = NoLLM
  /\ kws = NoKeywords
  /\ kwIdx = 1
  /\ resp = NoResp
  /\ authors = <<>>
  /\ timelines = <<>>
  /\ tweets = <<>>
  /\ results = <<>>
  /\ result = NoResult
  /\ result_data = NoPayload
  /\ writes = <<>>
  /\ ret = NoPayload

FreshLocals ==
  /\ llm' = NoLLM
  /\ kws' = NoKeywords
  /\ kwIdx' = 1
  /\ resp' = NoResp
  /\ authors' = <<>>
  /\ timelines' = <<>>
  /\ tweets' = <<>>
  /\ results' = <<>>

\* An exception e leaves the pipeline steps. Inside the task it leaves
\* crew.kickoff() too and reaches run_crewai's handler, which calls
\* run_pipeline; anywhere else nothing catches it.
Raise(e) ==
  IF ctx = "task"
  THEN /\ pc' = "gen"
       /\ ctx' = "fallback"
       /\ FreshLocals
       /\ UNCHANGED <<exc, ret>>
  ELSE /\ pc' = "done"
       /\ exc' = e
       /\ UNCHANGED <<ctx, ret, locals>>

\* ------------------------------------------------------------ entry point
\* if CREWAI_AVAILABLE: run_crewai(topic) else: run_pipeline(topic)
Main ==
  /\ pc = "start" /\ entry = "main"
  /\ IF crewaiAvailable
     THEN pc' = "crew_check" /\ ctx' = "crew"
     ELSE pc' = "gen" /\ ctx' = "direct"
  /\ UNCHANGED <<entry, crewaiAvailable, exc, locals, result, result_data, writes, ret>>

\* run_crewai(topic) called by an importer of the module
CallRunCrewai ==
  /\ pc = "start" /\ entry = "run_crewai"
  /\ pc' = "crew_check" /\ ctx' = "crew"
  /\ UNCHANGED <<entry, crewaiAvailable, exc, locals, result, result_data, writes, ret>>

\* ------------------------------------------------------------ run_crewai
\* if not CREWAI_AVAILABLE: return run_pipeline(topic)
CrewUnavailable ==
  /\ pc = "crew_check" /\ ~crewaiAvailable
  /\ pc' = "gen" /\ ctx' = "direct"
  /\ UNCHANGED <<entry, crewaiAvailable, exc, locals, result, result_data, writes, ret>>

\* Agent(...), Task(...), Crew(...): outside any try block
BuildCrew ==
  /\ pc = "crew_check" /\ crewaiAvailable
  /\ \E ok \in BOOLEAN :
       IF ok THEN pc' = "kickoff" /\ exc' = exc
       ELSE pc' = "done" /\ exc' = "CrewError"
  /\ UNCHANGED <<entry, crewaiAvailable, ctx, locals, result, result_data, writes, ret>>

\* What kickoff returns: the attributes the object has, its raw text, and
\* its structured forms.
KickoffResult(attrs, p, q) ==
  [attrs |-> attrs, raw |-> p, to_dict |-> q, json |-> q, self |-> q]

\* result = crew.kickoff(): it raises, or it runs the task's func, or it
\* answers without running it.
Kickoff ==
  /\ pc = "kickoff"
  /\ \/ /\ pc' = "gen" /\ ctx' = "fallback"
        /\ UNCHANGED result
     \/ /\ pc' = "gen" /\ ctx' = "task"
        /\ UNCHANGED result
     \/ /\ \E attrs \in AttrChoices :
             result' = KickoffResult(attrs, RawText, RawText)
        /\ pc' = "extract" /\ ctx' = ctx
  /\ UNCHANGED <<entry, crewaiAvailable, exc, locals, result_data, writes, ret>>

\* search_and_filter returned its list to the library and its locals are
\* gone; kickoff returns an object that carries that list or the agent's
\* own text.
KickoffReturn ==
  /\ pc = "task_return"
  /\ \E attrs \in AttrChoices, p, q \in {ListPayload(results), RawText} :
       result' = KickoffResult(attrs, p, q)
  /\ FreshLocals
  /\ pc' = "extract"
  /\ UNCHANGED <<entry, crewaiAvailable, ctx, exc, result_data, writes, ret>>

\* the hasattr chain
ExtractResult ==
  /\ pc = "extract"
  /\ result_data' = Extract(result)
  /\ pc' = "crew_write"
  /\ UNCHANGED <<entry, crewaiAvailable, ctx, exc, locals, result, writes, ret>>

WriteRecord(name, data) == [file |-> name, topic |-> Topic, results |-> data]

\* json.dump to results_crewai.json; return result_data
CrewWrite ==
  /\ pc = "crew_write"
  /\ writes' = Append(writes, WriteRecord(CrewResultsFile, result_data))
  /\ ret' = result_data
  /\ pc' = "done"
  /\ UNCHANGED <<entry, crewaiAvailable, ctx, exc, locals, result, result_data>>

\* ------------------------------------------------------ generate_keywords
GenerateKeywords ==
  /\ pc = "gen"
  /\ \E r \in LLMResponses :
       IF r.kind = "error"
       THEN /\ Raise("APIError")
            /\ UNCHANGED <<entry, crewaiAvailable, result, result_data, writes>>
       ELSE /\ llm' = r
            /\ kws' = KeywordsFrom(r)
            /\ pc' = "search"
            /\ UNCHANGED <<entry, crewaiAvailable, ctx, exc, kwIdx, resp, authors,
                           timelines, tweets, results, result, result_data, writes, ret>>

\* --------------------------------------------------------- search_authors
\* `for kw in keywords` over a value that cannot be iterated
SearchNotIterable ==
  /\ pc = "search" /\ ~Iterable(kws)
  /\ Raise("TypeError")
  /\ UNCHANGED <<entry, crewaiAvailable, result, result_data, writes>>

\* resp = client_tw.search_recent_tweets(...) for the next keyword
SearchCall ==
  /\ pc = "search" /\ Iterable(kws) /\ kwIdx <= Len(kws.items)
  /\ \E r \in SearchResponses : resp' = r
  /\ pc' = "includes"
  /\ UNCHANGED <<entry, crewaiAvailable, ctx, exc, llm, kws, kwIdx, authors, timelines,
                 tweets, results, result, result_data, writes, ret>>

\* the rest of the try block for that keyword: the loop over the included
\* users, or the handler; then on to the next keyword
ProcessIncludes ==
  /\ pc = "includes"
  /\ authors' = ProcessResponse(authors, resp)
  /\ kwIdx' = kwIdx + 1
  /\ resp' = NoResp
  /\ pc' = "search"
  /\ UNCHANGED <<entry, crewaiAvailable, ctx, exc, llm, kws, timelines, tweets,
                 results, result, result_data, writes, ret>>

\* return authors
SearchDone ==
  /\ pc = "search" /\ Iterable(kws) /\ kwIdx > Len(kws.items)
  /\ pc' = "filter"
  /\ llm' = NoLLM
  /\ UNCHANGED <<entry, crewaiAvailable, ctx, exc, kws, kwIdx, resp, authors, timelines,
                 tweets, results, result, result_data, writes, ret>>

\* ------------------------------------- the loop over authors.items()
Pos == Len(tweets) + 1

\* t = count_tweets(uid); the threshold test; results.append
MeasureAndFilter ==
  /\ pc = "filter" /\ Pos <= Len(authors)
  /\ \E tl \in TimelineResponses :
       /\ timelines' = Append(timelines, tl)
       /\ tweets' = Append(tweets, CountTweets(tl))
       /\ results' = IF Qualifies(authors[Pos], CountTweets(tl))
                     THEN Append(results, ResultEntry(authors[Pos], CountTweets(tl)))
                     ELSE results
  /\ UNCHANGED <<entry, crewaiAvailable, pc, ctx, exc, llm, kws, kwIdx, resp, authors,
                 result, result_data, writes, ret>>

\* search_and_filter: return results
TaskDone ==
  /\ pc = "filter" /\ Pos > Len(authors) /\ ctx = "task"
  /\ pc' = "task_return"
  /\ UNCHANGED <<entry, crewaiAvailable, ctx, exc, locals, result, result_data, writes, ret>>

\* run_pipeline: json.dump to results.json; return results
PipelineWrite ==
  /\ pc = "filter" /\ Pos > Len(authors) /\ ctx # "task"
  /\ writes' = Append(writes, WriteRecord(ResultsFile, ListPayload(results)))
  /\ IF ctx = "fallback"
     THEN /\ result_data' = ListPayload(results)
          /\ pc' = "crew_write"
          /\ ret' = ret
     ELSE /\ ret' = ListPayload(results)
          /\ pc' = "done"
          /\ result_data' = result_data
  /\ UNCHANGED <<entry, crewaiAvailable, ctx, exc, locals, result>>

Next ==
  \/ Main
  \/ CallRunCrewai
  \/ CrewUnavailable
  \/ BuildCrew
  \/ Kickoff
  \/ KickoffReturn
  \/ ExtractResult
  \/ CrewWrite
  \/ GenerateKeywords
  \/ SearchNotIterable
  \/ SearchCall
  \/ ProcessIncludes
  \/ SearchDone
  \/ MeasureAndFilter
  \/ TaskDone
  \/ PipelineWrite

Spec == Init /\ [][Next]_vars

\* ------------------------------------------------------------ properties
Measured == 1..Len(tweets)

EntryOf(k, j) ==
  /\ results[j].username = authors[k].username
  /\ results[j].followers = authors[k].followers
  /\ results[j].tweets_last_2_weeks = tweets[k]

InResults(k) == \E j \in 1..Len(results) : EntryOf(k, j)

\* C1: a candidate has an entry in the result list exactly when its follower
\* count is at least 5000 and its measured post count is at least 6; every
\* entry is some candidate's; and that list is what run_pipeline writes to
\* results.json and returns.
C1_FilterIff ==
  /\ \A k \in Measured :
       InResults(k) <=> (authors[k].followers >= 5000 /\ tweets[k] >= 6)
  /\ \A j \in 1..Len(results) : \E k \in Measured : EntryOf(k, j)
  /\ \A n \in 1..Len(writes) :
       writes[n].file = ResultsFile =>
         /\ Len(tweets) = Len(authors)
         /\ writes[n].results = ListPayload(results)
  /\ (pc = "done" /\ ctx \in {"direct", "fallback"} /\ exc = "None") =>
       ret = ListPayload(results)

\* A finished run with a candidate at exactly (5000, 6), included, and one
\* below a threshold, left out.
C1_Witness ==
  /\ pc = "done" /\ ctx = "direct" /\ exc = "None"
  /\ Len(writes) = 1
  /\ \E k \in Measured :
       authors[k].followers = 5000 /\ tweets[k] = 6 /\ InResults(k)
  /\ \E k \in Measured :
       authors[k].followers = 4999 /\ tweets[k] = 6 /\ ~InResults(k)

UniqueIds(d) == \A a, b \in 1..Len(d) : a # b => d[a].uid # d[b].uid

ResponseRaises(r) ==
  r.kind = "error" \/ \E n \in 1..Len(r.users) : MetricsRaises(r.users[n])

\* The last place in a response where the user of place n appears.
LastOf(us, n) ==
  CHOOSE m \in n..Len(us) :
    /\ us[m].id = us[n].id
    /\ \A z \in (m + 1)..Len(us) : us[z].id # us[n].id

\* Processing one keyword's response leaves every author it returned with
\* that response's metadata, whatever an earlier keyword stored, and leaves
\* the other authors as they were.
LastKeywordWins ==
  (pc = "includes" /\ ~ResponseRaises(resp)) =>
    /\ \A n \in 1..Len(resp.users) :
         \E j \in 1..Len(authors') :
           /\ authors'[j].uid = ToString(resp.users[n].id)
           /\ authors'[j].username = resp.users[LastOf(resp.users, n)].username
           /\ authors'[j].followers = FollowersOf(resp.users[LastOf(resp.users, n)])
    /\ \A j \in 1..Len(authors') :
         (\A n \in 1..Len(resp.users) : authors'[j].uid # ToString(resp.users[n].id))
           => \E k \in 1..Len(authors) : authors[k] = authors'[j]

C3_Orig == [][(pc = "includes" /\ ResponseRaises(resp)) => authors' = authors]_vars

\* C4 as stated: whenever the text generation yields no JSON array,
\* generate_keywords returns the fallback list and no error leaves it.
C4_Orig ==
  /\ exc # "APIError"
  /\ llm.kind \notin {"unset", "array"} => kws = JsonValue("array", FallbackKeywords)

\* C5 as stated: a run of run_pipeline always ends by returning, with its
\* result set written to results.json.
C5_Orig ==
  (pc = "done" /\ ctx \in {"direct", "fallback"}) =>
    /\ exc = "None"
    /\ \E n \in 1..Len(writes) : writes[n].file = ResultsFile

\* C6 as stated: when the orchestration run succeeds, run_crewai returns and
\* writes a result list whose entries all meet both thresholds.
C6_Orig ==
  (pc = "done" /\ exc = "None" /\ ctx \in {"crew", "task"}) =>
    /\ ret.kind = "list"
    /\ \A j \in 1..Len(ret.items) :
         ret.items[j].followers >= 5000 /\ ret.items[j].tweets_last_2_weeks >= 6
    /\ writes = <<WriteRecord(CrewResultsFile, ret)>>

\* C7 as stated: a failure of the orchestration abstraction is never raised
\* to the caller of run_crewai.
C7_Orig == pc = "done" => exc # "CrewError"

\* C8 as stated: a run from the entry point writes its result set at most
\* once, and exactly once when it returns.
C8_Orig ==
  entry = "main" =>
    /\ Len(writes) <= 1
    /\ (pc = "done" /\ exc = "None") => Len(writes) = 1

\* C9: every timeline call yields a count: 0 when the call fails or the
\* response has no data, the number of posts otherwise; no run ends in an
\* exception once a measurement was made; a candidate whose measurement
\* failed has no entry in the result list.
C9_CountTweets ==
  /\ Len(timelines) = Len(tweets)
  /\ \A k \in 1..Len(timelines) :
       /\ (timelines[k].kind # "data" \/ timelines[k].data = <<>>) =>
            (tweets[k] = 0 /\ ~InResults(k))
       /\ (timelines[k].kind = "data") => tweets[k] = Len(timelines[k].data)
  /\ (pc = "done" /\ exc # "None") => timelines = <<>>

\* A finished run where the timeline call failed for an author with enough
\* followers and another author made it into the list.
C9_Witness ==
  /\ pc = "done" /\ exc = "None"
  /\ \E k \in 1..Len(timelines) :
       timelines[k].kind = "error" /\ authors[k].followers >= 5000
  /\ Len(results) = 1

\* The first place in a response where the author with this uid appears.
FirstPlace(us, uid) ==
  CHOOSE n \in 1..Len(us) :
    /\ ToString(us[n].id) = uid
    /\ \A z \in 1..(n - 1) : ToString(us[z].id) # uid

\* Processing a keyword keeps every author already in the map at its
\* position and adds the new ones behind, in the order the response lists
\* them.
FirstSeenOrder ==
  pc = "includes" =>
    /\ Len(authors') >= Len(authors)
    /\ \A k \in 1..Len(authors) : authors'[k].uid = authors[k].uid
    /\ \A k1, k2 \in (Len(authors) + 1)..Len(authors') :
         k1 < k2 => FirstPlace(resp.users, authors'[k1].uid)
                      < FirstPlace(resp.users, authors'[k2].uid)

\* The result list follows the order of the map, one entry per author.
ResultsFollowAuthors ==
  /\ \A j \in 1..Len(results) :
       \E k \in 1..Len(authors) : authors[k].username = results[j].username
  /\ \A j1, j2 \in 1..Len(results), k1, k2 \in 1..Len(authors) :
       (/\ j1 < j2
        /\ authors[k1].username = results[j1].username
        /\ authors[k2].username = results[j2].username) => k1 < k2

\* C10: the result list is ordered by when each author id was first seen; a
\* later keyword overwriting an author does not move it; each author id has
\* at most one entry.
C10_Order == [](ResultsFollowAuthors) /\ [][FirstSeenOrder]_vars

\* A finished run whose list holds both authors, the higher id first, after
\* a later keyword returned the first-seen author again.
C10_Witness ==
  /\ pc = "done" /\ exc = "None" /\ kwIdx >= 3
  /\ Len(results) = 2
  /\ results[1].username = Handle(2)
  /\ results[2].username = Handle(1)

====
